---- MODULE Spec2Model ----
(***************************************************************************)
(* A model of the toy-cli agent: Agent.loop / Agent.response_loop          *)
(* (src/agent.py), the stream assembler inside _response_loop_streaming,   *)
(* the tool executor, and the TodoManager behind run_todo (src/tools.py).  *)
(*                                                                         *)
(* Python strings are TLA+ strings; += is \o.  Where the backend splits a  *)
(* string into fragments, the backend's side of the model holds it as a    *)
(* sequence of units (non-empty strings) and sends Join of some of them.   *)
(***************************************************************************)
EXTENDS Naturals, Sequences, FiniteSets, TLC

VARIABLES
    streaming,            \* Agent.streaming
    is_reasoner,          \* Agent._is_reasoner()
    use_todo,             \* Agent.use_todo
    rounds_without_todo,  \* Agent.rounds_without_todo
    TODO,                 \* tools.TODO.items
    first_message,        \* Agent.loop: first_message
    history,              \* Agent.loop: history, the list handed to response_loop
    user_input,           \* the argument of response_loop
    messages,             \* the conversation list of the response loop
    used_todo_this_turn,  \* the loop's used_todo_this_turn
    pc,                   \* the position of the program
    stream,               \* the chunks the backend has still to send
    full_content,         \* _response_loop_streaming: full_content
    full_reasoning,       \* _response_loop_streaming: full_reasoning
    tool_calls,           \* the tool calls of the current response
    running,              \* the tool calls (positions) being executed right now
    messages_additions,   \* _process_tool_calls: messages_additions
    used_todo,            \* _process_tool_calls: used_todo
    result,               \* what response_loop returned: <<messages, used_todo>>
    backend_calls,        \* backend calls issued in this turn
    total_calls,          \* backend calls issued in this session
    turns,                \* turns started in this session
    response,             \* the response the backend is answering with
    turn_start,           \* the conversation at the start of the turn
    given_history,        \* the elements of the caller's list when response_loop was called
    chunk_log,            \* the chunks consumed from the current stream
    last_call,            \* what the executor did with the tool call it processed last
    raised_in,            \* the function an uncaught exception came from, or ""
    shared,               \* the loop's conversation list is the caller's history list itself
    attempt,              \* BaseLLM._make_request: attempt
    http_log              \* the outcomes of the HTTP attempts of the request under way

vars == << streaming, is_reasoner, use_todo, rounds_without_todo, TODO,
           first_message, history, user_input, messages, used_todo_this_turn,
           pc, stream, full_content, full_reasoning, tool_calls,
           running, messages_additions, used_todo, result, backend_calls,
           total_calls, turns, response, turn_start, given_history, chunk_log,
           last_call, raised_in, shared, attempt, http_log >>

-----------------------------------------------------------------------------
(* Bounds of the model.                                                    *)

MaxCalls == 3
MaxTurns == 2
MaxChunks == 3

-----------------------------------------------------------------------------
(* Python helpers.                                                         *)

EmptyDict == [k \in {} |-> TRUE]

\* dict.get(key, default)
Get(d, key, default) == IF key \in DOMAIN d THEN d[key] ELSE default

\* "key in d and d[key]" for a string value
Truthy(d, key) == key \in DOMAIN d /\ d[key] # ""

\* "".join(units)
RECURSIVE Join(_)
Join(units) == IF units = << >> THEN "" ELSE Head(units) \o Join(Tail(units))

\* d with the keys of e added (e's value where both have the key)
Update(d, e) == [k \in DOMAIN d \cup DOMAIN e |-> IF k \in DOMAIN e THEN e[k] ELSE d[k]]

-----------------------------------------------------------------------------
(* The stream assembler: the body of the "for chunk in ..." loop of        *)
(* _response_loop_streaming.  A chunk is a dict with an optional "choices" *)
(* list; a delta has optional "content", "reasoning_content" and           *)
(* "tool_calls"; a tool-call delta has optional "index", "id" and          *)
(* "function", which has optional "name" and "arguments".                  *)

\* The builder appended on first sight of an index.
NewBuilder(tool_call_delta) ==
    [ id       |-> Get(tool_call_delta, "id", ""),
      type     |-> "function",
      function |-> [name |-> "", arguments |-> ""] ]

\* Mutant: a later name fragment replaces the name.
NameAfter_LastWins(name, func_delta) ==
    IF Truthy(func_delta, "name") THEN func_delta["name"] ELSE name

\* The name of the builder after a function delta: the first non-empty name stays.
NameAfter(name, func_delta) ==
    IF Truthy(func_delta, "name") /\ name = "" THEN func_delta["name"] ELSE name

\* Mutant: a later arguments fragment replaces the arguments.
ArgumentsAfter_LastWins(arguments, func_delta) ==
    IF Truthy(func_delta, "arguments") THEN func_delta["arguments"] ELSE arguments

\* The arguments of the builder after a function delta: fragments are appended.
ArgumentsAfter(arguments, func_delta) ==
    IF Truthy(func_delta, "arguments")
    THEN arguments \o func_delta["arguments"]
    ELSE arguments

\* One tool-call delta applied to the list of builders.  raised is TRUE when
\* tool_calls[index] is read past the end of the list (IndexError).
AssembleToolCallDelta(tcs, tool_call_delta) ==
    LET index == Get(tool_call_delta, "index", 0)
        tcs1  == IF index >= Len(tcs)
                 THEN Append(tcs, NewBuilder(tool_call_delta))
                 ELSE tcs
    IN  IF "function" \notin DOMAIN tool_call_delta
        THEN [tool_calls |-> tcs1, raised |-> FALSE]
        ELSE LET func_delta == tool_call_delta["function"]
                 reads == Truthy(func_delta, "name") \/ Truthy(func_delta, "arguments")
             IN  IF ~reads
                 THEN [tool_calls |-> tcs1, raised |-> FALSE]
                 ELSE IF index >= Len(tcs1)
                 THEN [tool_calls |-> tcs1, raised |-> TRUE]
                 ELSE LET old == tcs1[index + 1]
                          new == [old EXCEPT !.function =
                                    [ name      |-> NameAfter(old.function.name, func_delta),
                                      arguments |-> ArgumentsAfter(old.function.arguments,
                                                                   func_delta) ]]
                      IN  [tool_calls |-> [tcs1 EXCEPT ![index + 1] = new],
                           raised |-> FALSE]

\* for tool_call_delta in delta['tool_calls']: ...
RECURSIVE AssembleToolCallDeltas(_, _)
AssembleToolCallDeltas(tcs, deltas) ==
    IF deltas = << >>
    THEN [tool_calls |-> tcs, raised |-> FALSE]
    ELSE LET one == AssembleToolCallDelta(tcs, Head(deltas))
         IN  IF one.raised THEN one
             ELSE AssembleToolCallDeltas(one.tool_calls, Tail(deltas))

\* The delta of a chunk, or no delta when the chunk has no choices.
HasChoices(chunk) == "choices" \in DOMAIN chunk /\ chunk["choices"] # << >>
DeltaOf(chunk) == Get(chunk["choices"][1], "delta", EmptyDict)

\* full_reasoning after a delta.
ReasoningAfter(reasoning, delta) ==
    IF Truthy(delta, "reasoning_content")
    THEN reasoning \o delta["reasoning_content"]
    ELSE reasoning

\* full_content after a delta.
ContentAfter(content, delta) ==
    IF Truthy(delta, "content") THEN content \o delta["content"] ELSE content

\* One iteration of the for loop over the chunks, on the three accumulators.
AssembleChunk(st, chunk) ==
    IF ~HasChoices(chunk)
    THEN [st EXCEPT !.raised = FALSE]
    ELSE LET delta == DeltaOf(chunk)
             tc == IF "tool_calls" \in DOMAIN delta /\ delta["tool_calls"] # << >>
                   THEN AssembleToolCallDeltas(st.tool_calls, delta["tool_calls"])
                   ELSE [tool_calls |-> st.tool_calls, raised |-> FALSE]
         IN  [ full_content   |-> ContentAfter(st.full_content, delta),
               full_reasoning |-> ReasoningAfter(st.full_reasoning, delta),
               tool_calls     |-> tc.tool_calls,
               raised         |-> tc.raised ]

\* Mutant: an empty content is left out of the message.
AssistantMsg_NoEmptyContent(content, reasoning, tcs) ==
    Update(Update(IF content # "" THEN [role |-> "assistant", content |-> content]
                  ELSE [role |-> "assistant"],
                  IF reasoning # "" THEN [reasoning_content |-> reasoning] ELSE EmptyDict),
           IF tcs # << >> THEN [tool_calls |-> tcs] ELSE EmptyDict)

\* The assistant message built from content, reasoning and tool calls.
AssistantMsg(content, reasoning, tcs) ==
    Update(Update([role |-> "assistant", content |-> content],
                  IF reasoning # "" THEN [reasoning_content |-> reasoning] ELSE EmptyDict),
           IF tcs # << >> THEN [tool_calls |-> tcs] ELSE EmptyDict)

-----------------------------------------------------------------------------
(* JSON.  The argument strings of the model are built from the units "{",  *)
(* "}", "[1]" and the members below; json.loads is given for every string  *)
(* those units can form: the objects of JsonObjects, the list "[1]", and   *)
(* JSONDecodeError for all the rest.  A parsed value is tagged with its    *)
(* Python type.                                                            *)

M_CMD     == "\"command\": \"ls\""
M_CMD_INT == "\"command\": 1"
M_ITEMS_A == "\"items\": [{\"content\": \"A\", \"status\": \"in_progress\", \"activeForm\": \"Doing A\"}]"
M_ITEMS_2 == "\"items\": [{\"content\": \"A\", \"status\": \"in_progress\", \"activeForm\": \"Doing A\"}, {\"content\": \"B\", \"status\": \"in_progress\", \"activeForm\": \"Doing B\"}]"

ItemA == [content |-> "A", status |-> "in_progress", activeForm |-> "Doing A"]
ItemB == [content |-> "B", status |-> "in_progress", activeForm |-> "Doing B"]

JsonMembers ==
    [ m \in {M_CMD, M_CMD_INT, M_ITEMS_A, M_ITEMS_2} |->
        CASE m = M_CMD     -> [command |-> [t |-> "str", v |-> "ls"]]
          [] m = M_CMD_INT -> [command |-> [t |-> "int", v |-> 1]]
          [] m = M_ITEMS_A -> [items |-> [t |-> "list", v |-> <<ItemA>>]]
          [] m = M_ITEMS_2 -> [items |-> [t |-> "list", v |-> <<ItemA, ItemB>>]] ]

\* json.loads(s): ok is FALSE for json.JSONDecodeError.
JsonLoads(s) ==
    IF s = "{}"
    THEN [ok |-> TRUE, t |-> "dict", v |-> EmptyDict]
    ELSE IF \E m \in DOMAIN JsonMembers : s = "{" \o m \o "}"
    THEN [ok |-> TRUE, t |-> "dict",
          v |-> JsonMembers[CHOOSE m \in DOMAIN JsonMembers : s = "{" \o m \o "}"]]
    ELSE IF s = "[1]"
    THEN [ok |-> TRUE, t |-> "list", v |-> <<1>>]
    ELSE [ok |-> FALSE, t |-> "none", v |-> EmptyDict]

-----------------------------------------------------------------------------
(* TodoManager (src/tools.py).                                             *)

MaxTodos == 20

\* str.strip() and str.lower() on the strings of the model.
Strip(s) == CASE s = " " -> "" [] s = " A " -> "A" [] OTHER -> s
Lower(s) == CASE s = "IN_PROGRESS" -> "in_progress"
              [] s = "Completed"   -> "completed"
              [] OTHER -> s

TodoStatuses == {"pending", "in_progress", "completed"}

\* The validated form of one item, as update() builds it.
ValidatedItem(item) ==
    [ content    |-> Strip(Get(item, "content", "")),
      status     |-> Lower(Get(item, "status", "pending")),
      activeForm |-> Strip(Get(item, "activeForm", "")) ]

\* Mutant: an item without activeForm is accepted.
ItemError_NoActiveForm(i, item) ==
    LET v == ValidatedItem(item)
    IN  IF v.content = "" THEN "Item " \o ToString(i) \o ": content required"
        ELSE IF v.status \notin TodoStatuses
        THEN "Item " \o ToString(i) \o ": invalid status '" \o v.status \o "'"
        ELSE ""

\* The ValueError of item i (0-based), or "" when the item is valid.
ItemError(i, item) ==
    LET v == ValidatedItem(item)
    IN  IF v.content = "" THEN "Item " \o ToString(i) \o ": content required"
        ELSE IF v.status \notin TodoStatuses
        THEN "Item " \o ToString(i) \o ": invalid status '" \o v.status \o "'"
        ELSE IF v.activeForm = "" THEN "Item " \o ToString(i) \o ": activeForm required"
        ELSE ""

\* sum(1 for t in items if t["status"] == status)
RECURSIVE CountStatus(_, _)
CountStatus(items, status) ==
    IF items = << >> THEN 0
    ELSE (IF Head(items).status = status THEN 1 ELSE 0) + CountStatus(Tail(items), status)

\* "\n".join(lines)
RECURSIVE JoinLines(_)
JoinLines(lines) ==
    IF lines = << >> THEN ""
    ELSE IF Len(lines) = 1 THEN lines[1]
    ELSE lines[1] \o "\n" \o JoinLines(Tail(lines))

\* Mutant: the line of the item in progress does not show its activeForm.
RenderLine_NoActiveForm(item) ==
    IF item.status = "completed" THEN "[x] " \o item.content
    ELSE IF item.status = "in_progress" THEN "[>] " \o item.content
    ELSE "[ ] " \o item.content

\* The line render() makes for one item.
RenderLine(item) ==
    IF item.status = "completed" THEN "[x] " \o item.content
    ELSE IF item.status = "in_progress"
    THEN "[>] " \o item.content \o " <- " \o item.activeForm
    ELSE "[ ] " \o item.content

\* TodoManager.render()
render(items) ==
    IF items = << >> THEN "No todos."
    ELSE JoinLines([i \in 1..Len(items) |-> RenderLine(items[i])]
                   \o << "\n(" \o ToString(CountStatus(items, "completed")) \o "/"
                         \o ToString(Len(items)) \o " completed)" >>)

\* Mutant: the list is stored before the two constraints are checked.
update_StoredBeforeChecks(stored, items) ==
    LET bad == {i \in 1..Len(items) : ItemError(i - 1, items[i]) # ""}
        validated == [i \in 1..Len(items) |-> ValidatedItem(items[i])]
    IN  IF bad # {}
        THEN LET i == CHOOSE j \in bad : \A k \in bad : j <= k
             IN  [items |-> stored, raised |-> TRUE, text |-> ItemError(i - 1, items[i])]
        ELSE IF Len(validated) > MaxTodos
        THEN [items |-> validated, raised |-> TRUE, text |-> "Max 20 todos allowed"]
        ELSE IF CountStatus(validated, "in_progress") > 1
        THEN [items |-> validated, raised |-> TRUE,
              text |-> "Only one task can be in_progress at a time"]
        ELSE [items |-> validated, raised |-> FALSE, text |-> "\n" \o render(validated)]

\* TodoManager.update(items) on the stored list: the stored list afterwards,
\* and the returned text or the message of the ValueError raised.
update(stored, items) ==
    LET bad == {i \in 1..Len(items) : ItemError(i - 1, items[i]) # ""}
        validated == [i \in 1..Len(items) |-> ValidatedItem(items[i])]
    IN  IF bad # {}
        THEN LET i == CHOOSE j \in bad : \A k \in bad : j <= k
             IN  [items |-> stored, raised |-> TRUE, text |-> ItemError(i - 1, items[i])]
        ELSE IF Len(validated) > MaxTodos
        THEN [items |-> stored, raised |-> TRUE, text |-> "Max 20 todos allowed"]
        ELSE IF CountStatus(validated, "in_progress") > 1
        THEN [items |-> stored, raised |-> TRUE,
              text |-> "Only one task can be in_progress at a time"]
        ELSE [items |-> validated, raised |-> FALSE, text |-> "\n" \o render(validated)]

\* run_todo(items): never raises.
run_todo(stored, items) ==
    LET u == update(stored, items)
    IN  IF u.raised
        THEN [items |-> u.items, text |-> "Error: " \o u.text]
        ELSE [items |-> u.items, text |-> u.text]

-----------------------------------------------------------------------------
(* The tool registry and the tool executor (Agent._load_tools,             *)
(* Agent._execute_tool) and the capabilities of src/tools.py.              *)

\* tool_map: the names _load_tools registers.
tool_map(with_todo) ==
    {"run_powershell", "run_bash", "run_read", "run_write", "run_edit", "get_real_time"}
    \cup (IF with_todo THEN {"run_todo"} ELSE {})

\* The parameters of each capability: those without and with a default.
Required(name) ==
    CASE name \in {"run_bash", "run_powershell"} -> {"command"}
      [] name = "run_read"  -> {"path"}
      [] name = "run_write" -> {"path", "content"}
      [] name = "run_edit"  -> {"path", "old_text", "new_text"}
      [] name = "run_todo"  -> {"items"}
      [] OTHER -> {}
Optional(name) ==
    CASE name = "run_read"  -> {"limit", "encoding"}
      [] name \in {"run_write", "run_edit"} -> {"encoding"}
      [] OTHER -> {}

\* What the body of a capability can do with well-bound arguments: return a
\* string or raise; run_todo also stores a list.
Body(name, kwargs, stored) ==
    CASE name = "get_real_time" ->
           {[raised |-> FALSE, text |-> "2026-11-06T12:00:00", items |-> stored]}
      [] name = "run_bash" ->
           IF kwargs["command"].t # "str"
           THEN {[raised |-> TRUE, text |-> "argument of type 'int' is not iterable",
                  items |-> stored]}
           ELSE {[raised |-> FALSE, text |-> t, items |-> stored] :
                    t \in {"(no output)", "Error: Command timed out (60s)"}}
      [] name = "run_todo" ->
           \* iterating a value that is no list raises inside run_todo's try
           IF kwargs["items"].t # "list"
           THEN {[raised |-> FALSE, items |-> stored,
                  text |-> IF kwargs["items"].t = "int"
                           THEN "Error: 'int' object is not iterable"
                           ELSE "Error: 'str' object has no attribute 'get'"]}
           ELSE LET r == run_todo(stored, kwargs["items"].v)
                IN  {[raised |-> FALSE, text |-> r.text, items |-> r.items]}
      [] OTHER ->
           {[raised |-> FALSE, text |-> "Error: PowerShell is only available on Windows systems",
             items |-> stored]}

\* tool_func(**arguments): Python binds the keywords (TypeError when the value
\* is no mapping, a parameter without default is missing or a keyword is
\* unknown), then runs the body.  called: the call was made with a mapping.
Call(name, arguments, stored) ==
    IF arguments.t # "dict"
    THEN {[raised |-> TRUE, called |-> FALSE, items |-> stored,
           text |-> name \o "() argument after ** must be a mapping, not " \o arguments.t]}
    ELSE IF ~(Required(name) \subseteq DOMAIN arguments.v)
    THEN LET missing == Required(name) \ DOMAIN arguments.v
         IN  {[raised |-> TRUE, called |-> TRUE, items |-> stored,
               text |-> name \o "() missing " \o ToString(Cardinality(missing))
                        \o " required positional argument(s)"]}
    ELSE IF ~(DOMAIN arguments.v \subseteq Required(name) \cup Optional(name))
    THEN {[raised |-> TRUE, called |-> TRUE, items |-> stored,
           text |-> name \o "() got an unexpected keyword argument"]}
    ELSE {[raised |-> o.raised, called |-> TRUE, items |-> o.items, text |-> o.text] :
             o \in Body(name, arguments.v, stored)}

\* Mutant: the name is left out of the text.
NotFoundText_NoName(tool_name) == "Error: Tool not found"

NotFoundText(tool_name) == "Error: Tool " \o tool_name \o " not found"
ErrorText(tool_name, message) == "Error executing " \o tool_name \o ": " \o message

\* Mutant: no try/except, the exception of the capability goes up.
Caught_Uncaught(tool_name, o) ==
    [ raised |-> o.raised, text |-> o.text, items |-> o.items, called |-> o.called,
      threw |-> o.raised, thrown |-> IF o.raised THEN o.text ELSE "" ]

\* What the try/except of _execute_tool makes of one outcome of the call.
Caught(tool_name, o) ==
    [ raised |-> FALSE,
      text   |-> IF o.raised THEN ErrorText(tool_name, o.text) ELSE o.text,
      items  |-> o.items,
      called |-> o.called,
      threw  |-> o.raised,
      thrown |-> IF o.raised THEN o.text ELSE "" ]

\* _execute_tool(tool_name, arguments): the possible results.
execute_tool(tool_name, arguments, registry, stored) ==
    IF tool_name \notin registry
    THEN {[raised |-> FALSE, text |-> NotFoundText(tool_name), items |-> stored,
           called |-> FALSE, threw |-> FALSE, thrown |-> ""]}
    ELSE {Caught(tool_name, o) : o \in Call(tool_name, arguments, stored)}

\* Mutant: no except clause, JSONDecodeError goes up.
ParseArguments_Uncaught(function) ==
    LET raw == Get(function, "arguments", "{}")
        p   == JsonLoads(IF raw = "" THEN "{}" ELSE raw)
    IN  [raised |-> ~p.ok, failed |-> ~p.ok, value |-> [t |-> p.t, v |-> p.v]]

\* The try/except around json.loads in _process_tool_calls.
ParseArguments(function) ==
    LET raw == Get(function, "arguments", "{}")
        p   == JsonLoads(IF raw = "" THEN "{}" ELSE raw)
    IN  IF p.ok
        THEN [raised |-> FALSE, failed |-> FALSE, value |-> [t |-> p.t, v |-> p.v]]
        ELSE [raised |-> FALSE, failed |-> TRUE, value |-> [t |-> "dict", v |-> EmptyDict]]

\* Mutant: the tool message is linked by the name of the tool.
ToolMessage_ByName(tool_call, tool_result) ==
    [role |-> "tool", content |-> tool_result,
     tool_call_id |-> Get(Get(tool_call, "function", EmptyDict), "name", "")]

\* The tool message appended for a call.
ToolMessage(tool_call, tool_result) ==
    [role |-> "tool", content |-> tool_result, tool_call_id |-> Get(tool_call, "id", "")]

\* Mutant: the calls are taken last to first.
NextToolCall_Reversed(tcs, n_done) == Len(tcs) - n_done

\* for tool_call in tool_calls_data: the call taken after n_done calls.
NextToolCall(tcs, n_done) == n_done + 1

\* Mutant: the test is inverted.
HasToolCalls_Inverted(tcs) == tcs = << >>

\* Mutant: a single tool call is taken for none.
HasToolCalls_MoreThanOne(tcs) == Len(tcs) > 1

\* "if tool_calls:" of the two loops.
HasToolCalls(tcs) == tcs # << >>

\* Mutant: the flag is overwritten by the call processed last.
UsedTodoAfter_Overwritten(used, tool_name) == tool_name = "run_todo"

\* "if tool_name == 'run_todo': used_todo = True" of _process_tool_calls.
UsedTodoAfter(used, tool_name) == used \/ tool_name = "run_todo"

\* Mutant: the counter is never reset.
update_rounds_counter_NoReset(counter, used) == counter + 1

\* _update_rounds_counter
update_rounds_counter(counter, used) == IF used THEN 0 ELSE counter + 1

\* Mutant: the history is passed on with its reasoning_content fields.
strip_reasoning_from_history_Kept(h) == h

\* _strip_reasoning_from_history
strip_reasoning_from_history(h) ==
    [i \in 1..Len(h) |->
        IF "reasoning_content" \in DOMAIN h[i]
        THEN [k \in DOMAIN h[i] \ {"reasoning_content"} |-> h[i][k]]
        ELSE h[i]]

\* response_loop: the conversation the loops start from.
StartMessages(h, reasoner, input) ==
    (IF reasoner THEN strip_reasoning_from_history(h) ELSE h)
    \o <<[role |-> "user", content |-> input]>>

-----------------------------------------------------------------------------
(* The backend.  A response is what the model answers in one round, each   *)
(* string held as its units: content and reasoning (absent for null), and  *)
(* tool calls with an id, a name and an arguments string.                  *)

Call_time      == [id |-> "c1", name |-> <<"get_real_time">>, arguments |-> <<"{", "}">>]
Call_unknown   == [id |-> "c2", name |-> <<"unknown_tool">>, arguments |-> << >>]
Call_bash      == [id |-> "c1", name |-> <<"run_", "bash">>, arguments |-> <<"{", M_CMD, "}">>]
Call_bash_cut  == [id |-> "c1", name |-> <<"run_bash">>, arguments |-> <<"{", M_CMD>>]
Call_bash_int  == [id |-> "c1", name |-> <<"run_bash">>, arguments |-> <<"{", M_CMD_INT, "}">>]
Call_time_cut  == [id |-> "c2", name |-> <<"get_real_time">>, arguments |-> <<"{">>]
Call_time_list == [id |-> "c2", name |-> <<"get_real_time">>, arguments |-> <<"[1]">>]
Call_todo      == [id |-> "c1", name |-> <<"run_todo">>, arguments |-> <<"{", M_ITEMS_A, "}">>]
Call_todo_2    == [id |-> "c2", name |-> <<"run_todo">>, arguments |-> <<"{", M_ITEMS_2, "}">>]

Responses ==
    { [content |-> <<"do", "ne">>],
      [content |-> <<"ok">>, reasoning_content |-> <<"hm", "m">>],
      [tool_calls |-> << >>],
      [tool_calls |-> <<Call_time, Call_unknown>>],
      [content |-> <<"run">>, reasoning_content |-> <<"hm">>, tool_calls |-> <<Call_bash>>],
      [tool_calls |-> <<Call_bash_cut, Call_time_cut>>],
      [tool_calls |-> <<Call_bash_int, Call_time_list>>],
      [content |-> << >>, tool_calls |-> <<Call_todo, Call_todo_2>>] }

\* The tool calls of a response as the backend sends them whole.
WholeToolCalls(r) ==
    LET tcs == Get(r, "tool_calls", << >>)
    IN  [i \in 1..Len(tcs) |->
            [ id |-> tcs[i].id, type |-> "function",
              function |-> [ name      |-> Join(tcs[i].name),
                             arguments |-> Join(tcs[i].arguments) ] ]]

\* response['choices'][0]['message'] of the non-streaming form.
ResponseMessage(r) ==
    [k \in {"role"} \cup DOMAIN r |->
        CASE k = "role" -> "assistant"
          [] k = "tool_calls" -> WholeToolCalls(r)
          [] OTHER -> Join(r[k])]

\* The response as a list of pieces in the order a stream sends them:
\* reasoning, content, then each tool call's id, name and arguments.
Pieces(field, index, units) ==
    [i \in 1..Len(units) |-> [f |-> field, index |-> index, u |-> units[i]]]

RECURSIVE CallPieces(_, _)
CallPieces(tcs, index) ==
    IF tcs = << >> THEN << >>
    ELSE <<[f |-> "id", index |-> index, u |-> Head(tcs).id]>>
         \o Pieces("name", index, Head(tcs).name)
         \o Pieces("arguments", index, Head(tcs).arguments)
         \o CallPieces(Tail(tcs), index + 1)

ResponsePieces(r) ==
    Pieces("reasoning_content", 0, Get(r, "reasoning_content", << >>))
    \o Pieces("content", 0, Get(r, "content", << >>))
    \o CallPieces(Get(r, "tool_calls", << >>), 0)

\* The units of one field (and index) among some pieces, joined.
Units(pieces, field, index) ==
    LET sel == SelectSeq(pieces, LAMBDA p : p.f = field /\ p.index = index)
    IN  Join([i \in 1..Len(sel) |-> sel[i].u])
Has(pieces, field, index) ==
    \E i \in 1..Len(pieces) : pieces[i].f = field /\ pieces[i].index = index

\* The tool-call delta a group of pieces makes for one index.
FragmentOf(pieces, index) ==
    LET fn == Update(IF Has(pieces, "name", index)
                     THEN [name |-> Units(pieces, "name", index)] ELSE EmptyDict,
                     IF Has(pieces, "arguments", index)
                     THEN [arguments |-> Units(pieces, "arguments", index)] ELSE EmptyDict)
    IN  Update(Update([index |-> index],
                      IF Has(pieces, "id", index)
                      THEN [id |-> Units(pieces, "id", index), type |-> "function"]
                      ELSE EmptyDict),
               IF fn # EmptyDict THEN [function |-> fn] ELSE EmptyDict)

\* The chunk that carries a group of consecutive pieces.
ChunkOf(pieces) ==
    LET idx == {pieces[i].index : i \in {j \in 1..Len(pieces) :
                    pieces[j].f \in {"id", "name", "arguments"}}}
        lo  == CHOOSE a \in idx : \A b \in idx : a <= b
        frags == [i \in 1..Cardinality(idx) |-> FragmentOf(pieces, lo + i - 1)]
        delta ==
          Update(Update(IF Has(pieces, "reasoning_content", 0)
                        THEN [reasoning_content |-> Units(pieces, "reasoning_content", 0)]
                        ELSE EmptyDict,
                        IF Has(pieces, "content", 0)
                        THEN [content |-> Units(pieces, "content", 0)] ELSE EmptyDict),
                 IF idx # {} THEN [tool_calls |-> frags] ELSE EmptyDict)
    IN  [choices |-> <<[delta |-> delta]>>]

-----------------------------------------------------------------------------
(* The program: Agent.loop, Agent.response_loop and the two loops.         *)

SYSTEM_PROMPT == "You are a coding agent at WORKDIR."
FirstReminder == <<[type |-> "text", text |-> "<reminder>use TodoWrite</reminder>"]>>
LateReminder  == <<[type |-> "text", text |-> "<reminder>10+ rounds without todo</reminder>"]>>
ReminderAfter == 10

UserInputs == {"hi", "exit"}
IsExit(input) == Lower(input) \in {"exit", "quit"}

NoCall == [name |-> "", arguments |-> "", failed |-> FALSE, called |-> FALSE,
           kwargs |-> EmptyDict, threw |-> FALSE, thrown |-> "", text |-> ""]

config == << streaming, is_reasoner, use_todo >>
stream_vars == << stream, full_content, full_reasoning, chunk_log >>
tool_vars == << running, messages_additions, used_todo, last_call >>
session_vars == << first_message, user_input, turns, given_history, turn_start, shared >>
request_vars == << attempt, http_log >>

Init ==
    /\ streaming \in BOOLEAN
    /\ is_reasoner \in BOOLEAN
    /\ use_todo \in BOOLEAN
    /\ rounds_without_todo = 0
    /\ TODO = << >>
    /\ first_message = TRUE
    /\ history = <<[role |-> "system", content |-> SYSTEM_PROMPT]>>
    /\ user_input = ""
    /\ messages = << >>
    /\ used_todo_this_turn = FALSE
    /\ pc = "input"
    /\ stream = << >>
    /\ full_content = ""
    /\ full_reasoning = ""
    /\ tool_calls = << >>
    /\ running = {}
    /\ messages_additions = << >>
    /\ used_todo = FALSE
    /\ result = << >>
    /\ backend_calls = 0
    /\ total_calls = 0
    /\ turns = 0
    /\ response = EmptyDict
    /\ turn_start = << >>
    /\ given_history = << >>
    /\ chunk_log = << >>
    /\ last_call = NoCall
    /\ raised_in = ""
    /\ shared = FALSE
    /\ attempt = 0
    /\ http_log = << >>

\* Mutant: the late reminder is due from the tenth round on.
ReminderContent_FromTen(first, rounds) ==
    IF first THEN FirstReminder
    ELSE IF rounds >= ReminderAfter THEN LateReminder ELSE << >>

\* The "content" list of Agent.loop: the reminder due before this input.
ReminderContent(first, rounds) ==
    IF first THEN FirstReminder
    ELSE IF rounds > ReminderAfter THEN LateReminder ELSE << >>

\* Agent.loop, one iteration up to the call of response_loop: read the input,
\* leave on exit/quit, add a reminder to the history when one is due.  The
\* session is followed for max_turns turns.
LoopStep(max_turns) ==
    /\ pc \in {"input", "returned"}
    /\ \E input \in UserInputs :
          IF IsExit(input)
          THEN /\ pc' = "exited"
               /\ history' = IF pc = "returned" THEN result[1] ELSE history
               /\ UNCHANGED << first_message, user_input, turns >>
          ELSE /\ turns < max_turns
               /\ LET h == IF pc = "returned" THEN result[1] ELSE history
                      content == ReminderContent(first_message, rounds_without_todo)
                  IN  history' = IF content # << >>
                                 THEN Append(h, [role |-> "user", content |-> content])
                                 ELSE h
               /\ first_message' = FALSE
               /\ user_input' = input
               /\ turns' = turns + 1
               /\ pc' = "response_loop"
    /\ UNCHANGED << config, request_vars, rounds_without_todo, TODO, messages, used_todo_this_turn,
                    stream_vars, tool_calls, tool_vars, result, backend_calls,
                    total_calls, response, turn_start, given_history, shared, raised_in >>

\* Agent.loop in a session of at most MaxTurns turns.
loop == LoopStep(MaxTurns)

\* Mutant: the user message is appended to the caller's list, which then is
\* the list of the loop.
SharesList_Appended(h, reasoner) == TRUE

\* "messages = history + [...]" makes a new list: the list of the loop is
\* never the caller's list (nor the list _strip_reasoning_from_history
\* returns, which for an empty history is the caller's list itself).
SharesList(h, reasoner) == FALSE

\* The caller's list after the loop changed its own list to msgs.
CallerList(h, msgs) == IF shared THEN msgs ELSE h

\* response_loop up to the first backend call: the new conversation list.
response_loop ==
    /\ pc = "response_loop"
    /\ given_history' = history
    /\ messages' = StartMessages(history, is_reasoner, user_input)
    /\ shared' = SharesList(history, is_reasoner)
    /\ history' = IF shared' THEN messages' ELSE history
    /\ turn_start' = messages'
    /\ used_todo_this_turn' = FALSE
    /\ backend_calls' = 0
    /\ result' = << >>
    /\ pc' = "call_llm"
    /\ UNCHANGED << config, request_vars, rounds_without_todo, TODO, first_message, user_input,
                    stream_vars, tool_calls, tool_vars, total_calls, turns, response,
                    raised_in >>

\* The end of a round, after the assistant message is built: append it, then
\* either start processing the tool calls or update the counter and return.
EndRound(content, reasoning, tcs) ==
    /\ messages' = Append(messages, AssistantMsg(content, reasoning, tcs))
    /\ history' = CallerList(history, messages')
    /\ tool_calls' = tcs
    /\ IF HasToolCalls(tcs)
       THEN /\ pc' = "tools"
            /\ messages_additions' = << >>
            /\ used_todo' = used_todo_this_turn
            /\ UNCHANGED << rounds_without_todo, result >>
       ELSE /\ pc' = "returned"
            /\ rounds_without_todo' =
                  update_rounds_counter(rounds_without_todo, used_todo_this_turn)
            /\ result' = << messages', used_todo_this_turn >>
            /\ UNCHANGED << messages_additions, used_todo >>

\* _response_loop_non_streaming: one backend call that returns a response.
get_response ==
    /\ pc = "call_llm"
    /\ ~streaming
    /\ total_calls < MaxCalls
    /\ \E r \in Responses :
          LET response_message == ResponseMessage(r)
          IN  /\ response' = r
              /\ EndRound(Get(response_message, "content", ""),
                          Get(response_message, "reasoning_content", ""),
                          Get(response_message, "tool_calls", << >>))
    /\ backend_calls' = backend_calls + 1
    /\ total_calls' = total_calls + 1
    /\ UNCHANGED << config, request_vars, TODO, session_vars, used_todo_this_turn, stream_vars,
                    running, last_call, raised_in >>

\* Mutant: the loop catches the failure of the backend and ends the turn.
backend_raises_Caught ==
    /\ pc = "call_llm"
    /\ total_calls < MaxCalls
    /\ backend_calls' = backend_calls + 1
    /\ total_calls' = total_calls + 1
    /\ pc' = "returned"
    /\ raised_in' = "backend"
    /\ rounds_without_todo' = update_rounds_counter(rounds_without_todo, used_todo_this_turn)
    /\ result' = << messages, used_todo_this_turn >>
    /\ UNCHANGED << config, request_vars, TODO, session_vars, history, messages, used_todo_this_turn,
                    stream_vars, tool_calls, tool_vars, response >>

\* A backend call that raises (either form): nothing catches it.
backend_raises ==
    /\ pc = "call_llm"
    /\ total_calls < MaxCalls
    /\ backend_calls' = backend_calls + 1
    /\ total_calls' = total_calls + 1
    /\ pc' = "raised"
    /\ raised_in' = "backend"
    /\ UNCHANGED << config, request_vars, rounds_without_todo, TODO, session_vars, history, messages,
                    used_todo_this_turn, stream_vars, tool_calls, tool_vars, result,
                    response >>

\* _response_loop_streaming: the accumulators are reset and the stream opened.
get_streaming_response ==
    /\ pc = "call_llm"
    /\ streaming
    /\ total_calls < MaxCalls
    /\ \E r \in Responses :
          /\ response' = r
          /\ stream' = ResponsePieces(r)
    /\ full_content' = ""
    /\ full_reasoning' = ""
    /\ tool_calls' = << >>
    /\ backend_calls' = backend_calls + 1
    /\ total_calls' = total_calls + 1
    /\ pc' = "stream"
    /\ UNCHANGED << config, request_vars, rounds_without_todo, TODO, session_vars, history, messages,
                    used_todo_this_turn, tool_vars, result, raised_in, chunk_log >>

\* One chunk consumed by the for loop.
Consume(chunk) ==
    \E st \in {AssembleChunk([ full_content |-> full_content,
                               full_reasoning |-> full_reasoning,
                               tool_calls |-> tool_calls, raised |-> FALSE ], chunk)} :
        /\ full_content' = st.full_content
        /\ full_reasoning' = st.full_reasoning
        /\ tool_calls' = st.tool_calls
        /\ pc' = IF st.raised THEN "raised" ELSE pc
        /\ raised_in' = IF st.raised THEN "assembler" ELSE raised_in

\* The backend sends the next pieces of its response as one chunk.
stream_chunk ==
    /\ pc = "stream"
    /\ stream # << >>
    /\ \E n \in 1..Len(stream) :
          \E chunk \in {ChunkOf(SubSeq(stream, 1, n))} :
             /\ Consume(chunk)
             /\ stream' = SubSeq(stream, n + 1, Len(stream))
    /\ UNCHANGED << chunk_log, config, request_vars, rounds_without_todo, TODO, session_vars, history, messages,
                    used_todo_this_turn, tool_vars, result, backend_calls, total_calls,
                    response >>

\* The stream breaks while it is read.
stream_raises ==
    /\ pc = "stream"
    /\ pc' = "raised"
    /\ raised_in' = "backend"
    /\ UNCHANGED << config, request_vars, rounds_without_todo, TODO, session_vars, history, messages,
                    used_todo_this_turn, stream_vars, tool_calls, tool_vars, result,
                    backend_calls, total_calls, response >>

\* Mutant: the for loop is left while the backend has chunks to send.
StreamDone_Early(s) == TRUE

\* The for loop over the chunks ends when the stream has no chunk left.
StreamDone(s) == s = << >>

\* The stream ends: the assistant message is built from the accumulators.
stream_end ==
    /\ pc = "stream"
    /\ StreamDone(stream)
    /\ EndRound(full_content, full_reasoning, tool_calls)
    /\ UNCHANGED << config, request_vars, TODO, session_vars, used_todo_this_turn, stream_vars,
                    running, last_call, backend_calls, total_calls, response, raised_in >>

\* _process_tool_calls: the next call is taken, its arguments parsed and the
\* capability entered.
tool_start ==
    /\ pc = "tools"
    /\ running = {}
    /\ Len(messages_additions) < Len(tool_calls)
    /\ LET k == NextToolCall(tool_calls, Len(messages_additions))
           parsed == ParseArguments(Get(tool_calls[k], "function", EmptyDict))
       IN  IF parsed.raised
           THEN /\ pc' = "raised"
                /\ raised_in' = "process_tool_calls"
                /\ UNCHANGED running
           ELSE /\ running' = {k}
                /\ UNCHANGED << pc, raised_in >>
    /\ UNCHANGED << config, request_vars, rounds_without_todo, TODO, session_vars, history, messages,
                    used_todo_this_turn, stream_vars, tool_calls, messages_additions,
                    used_todo, last_call, result, backend_calls, total_calls, response >>

\* _process_tool_calls: the call returns and its tool message is added.
tool_finish ==
    /\ pc = "tools"
    /\ \E k \in running :
          LET tool_call == tool_calls[k]
              function == Get(tool_call, "function", EmptyDict)
              tool_name == Get(function, "name", "")
          IN  \E parsed \in {ParseArguments(function)} :
              \E o \in execute_tool(tool_name, parsed.value, tool_map(use_todo), TODO) :
                 /\ last_call' = [ name |-> tool_name,
                                   arguments |-> Get(function, "arguments", "{}"),
                                   failed |-> parsed.failed, called |-> o.called,
                                   kwargs |-> IF o.called THEN parsed.value.v ELSE EmptyDict,
                                   threw |-> o.threw, thrown |-> o.thrown, text |-> o.text ]
                 /\ TODO' = o.items
                 /\ IF o.raised
                    THEN /\ pc' = "raised"
                         /\ raised_in' = "process_tool_calls"
                         /\ UNCHANGED << messages_additions, used_todo >>
                    ELSE /\ messages_additions' =
                               Append(messages_additions, ToolMessage(tool_call, o.text))
                         /\ used_todo' = UsedTodoAfter(used_todo, tool_name)
                         /\ UNCHANGED << pc, raised_in >>
                 /\ running' = running \ {k}
    /\ UNCHANGED << config, request_vars, rounds_without_todo, session_vars, history, messages,
                    used_todo_this_turn, stream_vars, tool_calls, result, backend_calls,
                    total_calls, response >>

\* Mutant: the tool messages are put in front of the conversation.
Extend_InFront(msgs, additions) == additions \o msgs

\* messages.extend(tool_messages)
Extend(msgs, additions) == msgs \o additions

\* Mutant: the loop has a cap of two rounds and returns after the tools of
\* the second round.
tools_done_Capped ==
    /\ pc = "tools"
    /\ running = {}
    /\ Len(messages_additions) = Len(tool_calls)
    /\ messages' = Extend(messages, messages_additions)
    /\ history' = CallerList(history, messages')
    /\ used_todo_this_turn' = used_todo
    /\ messages_additions' = << >>
    /\ IF backend_calls >= 2
       THEN /\ pc' = "returned"
            /\ result' = << messages', used_todo >>
       ELSE /\ pc' = "call_llm"
            /\ UNCHANGED result
    /\ UNCHANGED << config, request_vars, rounds_without_todo, TODO, session_vars, stream_vars,
                    tool_calls, running, used_todo, last_call, backend_calls,
                    total_calls, response, raised_in >>

\* _process_tool_calls returns: the tool messages are added to the
\* conversation and the loop goes back to the backend call.
tools_done ==
    /\ pc = "tools"
    /\ running = {}
    /\ Len(messages_additions) = Len(tool_calls)
    /\ messages' = Extend(messages, messages_additions)
    /\ history' = CallerList(history, messages')
    /\ used_todo_this_turn' = used_todo
    /\ messages_additions' = << >>
    /\ pc' = "call_llm"
    /\ UNCHANGED << config, request_vars, rounds_without_todo, TODO, session_vars, stream_vars,
                    tool_calls, running, used_todo, last_call, result, backend_calls,
                    total_calls, response, raised_in >>

Next ==
    \/ loop
    \/ response_loop
    \/ get_response
    \/ backend_raises
    \/ get_streaming_response
    \/ stream_chunk
    \/ stream_raises
    \/ stream_end
    \/ tool_start
    \/ tool_finish
    \/ tools_done

Spec == Init /\ [][Next]_vars

\* A step of the turn under way: every step but the reading of the input.
TurnStep ==
    \/ response_loop
    \/ backend_raises
    \/ get_response
    \/ get_streaming_response
    \/ stream_raises
    \/ stream_chunk
    \/ stream_end
    \/ tool_start
    \/ tools_done
    \/ tool_finish

\* The program keeps running: the one thread of the loops takes its next
\* step while it has one (a backend call returns or raises, a stream goes on
\* until it ends or breaks, a tool returns).  Nothing is assumed about the
\* user's input.
SpecFair == Spec /\ WF_vars(TurnStep)

-----------------------------------------------------------------------------
(* The stream assembler on its own: the first stream of a session, fed     *)
(* with any chunks a backend may send, duplicated, echoed or late          *)
(* fragments included.                                                     *)

Fragments ==
    {[index |-> i, id |-> IF i = 0 THEN "c1" ELSE "c2", type |-> "function",
      function |-> [name |-> n, arguments |-> ""]] : i \in {0, 1}, n \in {"run_", "run_bash"}}
    \cup {[index |-> i, function |-> [name |-> n]] :
             i \in {0, 1}, n \in {"", "bash", "run_bash"}}
    \cup {[index |-> i, function |-> [arguments |-> a]] : i \in {0, 1}, a \in {"{", "}"}}
    \cup {[index |-> 0, id |-> "c9"],
          [function |-> [name |-> "get_real_time"]],
          [index |-> 2, id |-> "c3", type |-> "function",
           function |-> [name |-> "get_real_time", arguments |-> "{}"]]}

Chunks ==
    {[choices |-> <<[delta |-> [tool_calls |-> <<f>>]]>>] : f \in Fragments}
    \cup {[choices |-> <<[delta |-> d]>>] :
             d \in {[content |-> "a"], [reasoning_content |-> "t"],
                    [content |-> "b", reasoning_content |-> "", tool_calls |-> << >>]}}
    \cup {[choices |-> << >>], [usage |-> "tokens"]}

InitAsm ==
    /\ streaming = TRUE
    /\ is_reasoner = FALSE
    /\ use_todo = TRUE
    /\ rounds_without_todo = 0
    /\ TODO = << >>
    /\ first_message = FALSE
    /\ history = <<[role |-> "system", content |-> SYSTEM_PROMPT],
                   [role |-> "user", content |-> FirstReminder]>>
    /\ user_input = "hi"
    /\ messages = StartMessages(history, is_reasoner, user_input)
    /\ used_todo_this_turn = FALSE
    /\ pc = "stream"
    /\ stream = << >>
    /\ full_content = ""
    /\ full_reasoning = ""
    /\ tool_calls = << >>
    /\ running = {}
    /\ messages_additions = << >>
    /\ used_todo = FALSE
    /\ result = << >>
    /\ backend_calls = 1
    /\ total_calls = 1
    /\ turns = 1
    /\ response = EmptyDict
    /\ turn_start = messages
    /\ given_history = history
    /\ chunk_log = << >>
    /\ last_call = NoCall
    /\ raised_in = ""
    /\ shared = FALSE
    /\ attempt = 0
    /\ http_log = << >>

\* The for loop takes the next chunk of the stream.
asm_chunk ==
    /\ pc = "stream"
    /\ Len(chunk_log) < MaxChunks
    /\ \E chunk \in Chunks :
          /\ Consume(chunk)
          /\ chunk_log' = Append(chunk_log, chunk)
    /\ UNCHANGED << config, request_vars, rounds_without_todo, TODO, session_vars, history, messages,
                    used_todo_this_turn, stream, tool_vars, result, backend_calls,
                    total_calls, response >>

NextAsm ==
    \/ asm_chunk
    \/ stream_end
    \/ tool_start
    \/ tool_finish
    \/ tools_done

SpecAsm == InitAsm /\ [][NextAsm]_vars

-----------------------------------------------------------------------------
(* Properties.                                                             *)

\* The positions of the messages added in this turn.
Added == (Len(turn_start) + 1)..Len(messages)

\* The assistant messages of this turn that carry tool calls.
Calling == {j \in Added : messages[j].role = "assistant" /\ "tool_calls" \in DOMAIN messages[j]}

\* Assistant message j is followed by one tool message per call, in order.
Answered(j) ==
    LET tcs == messages[j].tool_calls
    IN  /\ j + Len(tcs) <= Len(messages)
        /\ \A i \in 1..Len(tcs) :
              /\ messages[j + i].role = "tool"
              /\ messages[j + i].tool_call_id = tcs[i].id

Last(seq) == seq[Len(seq)]

\* C1: within a turn the tool calls of a response are executed one at a time
\* in declaration order: at most one call is running, the running call is the
\* k-th only when the results of the k-1 calls before it, and no others, have
\* been produced in order, and a backend call is issued only when no call is
\* running and every tool call of the turn has its result in the conversation.
C1_SequentialInOrder ==
    /\ [](/\ Cardinality(running) <= 1
          /\ \A k \in running :
                /\ pc = "tools"
                /\ k = Len(messages_additions) + 1
                /\ \A i \in 1..(k - 1) : messages_additions[i].tool_call_id = tool_calls[i].id)
    /\ [][total_calls' # total_calls =>
             /\ running = {}
             /\ \A j \in Calling : Answered(j)]_vars

\* C1 witness: the second call of a response is running after the first has
\* produced its result.
C1_Witness == running = {2} /\ Len(messages_additions) = 1 /\ Len(tool_calls) = 2

\* C2: when the loop is about to call the backend again or has returned,
\* every assistant message of the turn with n tool calls is followed by
\* exactly n tool messages carrying the ids of its calls in order, and every
\* tool message of the turn is one of these.
C2_ToolMessagesMatchCalls ==
    pc \in {"call_llm", "returned"} =>
        /\ \A j \in Calling : Answered(j)
        /\ \A p \in Added :
              messages[p].role = "tool" =>
                 \E j \in Calling :
                    /\ j < p
                    /\ p <= j + Len(messages[j].tool_calls)
                    /\ \A q \in (j + 1)..p : messages[q].role = "tool"

\* C2 witness: the loop is about to call the backend after a response with two
\* tool calls whose ids differ.
C2_Witness ==
    /\ pc = "call_llm"
    /\ Len(messages) >= 3
    /\ Len(messages) - 2 \in Calling
    /\ Len(messages[Len(messages) - 2].tool_calls) = 2
    /\ messages[Len(messages) - 1].tool_call_id = "c1"
    /\ Last(messages).tool_call_id = "c2"

\* C3: response_loop returns only right after a response without tool calls;
\* a response with tool calls leads to tool execution, and tool execution
\* leads back to the backend call, with no return and no new user input.
C3_ReturnsOnlyWithoutToolCalls ==
    /\ [][(pc' = "returned" /\ pc # "returned") =>
             /\ pc \in {"call_llm", "stream"}
             /\ tool_calls' = << >>
             /\ messages' = Append(messages, Last(messages'))
             /\ Last(messages').role = "assistant"
             /\ "tool_calls" \notin DOMAIN Last(messages')]_vars
    /\ [][(pc \in {"call_llm", "stream"} /\ pc' \notin {"call_llm", "stream", "raised"}
           /\ tool_calls' # << >>) =>
             /\ pc' = "tools"
             /\ result' = result]_vars
    /\ [][pc = "tools" =>
             /\ pc' \in {"tools", "call_llm"}
             /\ result' = result
             /\ user_input' = user_input]_vars

\* C3 witness: the loop returned after a second backend call, the first
\* response having carried tool calls.
C3_Witness == pc = "returned" /\ backend_calls = 2 /\ Calling # {}

\* The first response of the turn carried no tool call.
FirstResponseWithoutCalls ==
    /\ Len(messages) > Len(turn_start)
    /\ "tool_calls" \notin DOMAIN messages[Len(turn_start) + 1]

\* Message m is message g without its reasoning_content field.
SameButReasoning(m, g) ==
    /\ DOMAIN m = DOMAIN g \ {"reasoning_content"}
    /\ \A k \in DOMAIN m : m[k] = g[k]

\* C4 as stated: if the first response of a turn has no tool calls,
\* response_loop makes exactly one backend call and returns the given history,
\* the user message and one assistant message, with no tool message added.
C4_AsStated ==
    (pc = "returned" /\ FirstResponseWithoutCalls) =>
        /\ backend_calls = 1
        /\ Len(result[1]) = Len(given_history) + 2
        /\ SubSeq(result[1], 1, Len(given_history)) = given_history
        /\ result[1][Len(given_history) + 1] = [role |-> "user", content |-> user_input]
        /\ Last(result[1]).role = "assistant"

\* C4 amended: as C4, the returned conversation starting with the given
\* history as it is for a model that is no reasoner, and with the given
\* history without the reasoning_content fields of its messages for a reasoner.
C4_OneCallWithoutToolCalls ==
    (pc = "returned" /\ FirstResponseWithoutCalls) =>
        /\ backend_calls = 1
        /\ Len(result[1]) = Len(given_history) + 2
        /\ \A i \in 1..Len(given_history) :
              IF is_reasoner
              THEN SameButReasoning(result[1][i], given_history[i])
              ELSE result[1][i] = given_history[i]
        /\ result[1][Len(given_history) + 1] = [role |-> "user", content |-> user_input]
        /\ Last(result[1]).role = "assistant"
        /\ \A i \in 1..Len(result[1]) :
              result[1][i].role = "tool" => i <= Len(given_history)

\* C4 witness: a reasoner returned after one backend call, from a history
\* that holds a message with reasoning_content.
C4_Witness ==
    /\ pc = "returned"
    /\ FirstResponseWithoutCalls
    /\ backend_calls = 1
    /\ is_reasoner
    /\ \E i \in 1..Len(given_history) : "reasoning_content" \in DOMAIN given_history[i]

\* The name of a tool call of an assistant message.
NameOf(tool_call) == tool_call.function.name

\* Tool execution goes on to the next backend call: it neither raises nor
\* returns.
ToolsLeadToBackend == [][pc = "tools" => pc' \in {"tools", "call_llm"}]_vars

\* C5: a tool call with an unregistered name gets the tool message
\* "Error: Tool {name} not found" and does not abort the turn; for the calls
\* [get_real_time, unknown_tool] the conversation gets exactly two tool
\* messages in that order, the second with that text, and the loop goes on to
\* the next backend call.
C5_UnknownToolReported ==
    /\ [](\A i \in 1..Len(messages_additions) :
             (pc = "tools" /\ NameOf(tool_calls[i]) \notin tool_map(use_todo)) =>
                /\ messages_additions[i].role = "tool"
                /\ messages_additions[i].tool_call_id = tool_calls[i].id
                /\ messages_additions[i].content
                      = "Error: Tool " \o NameOf(tool_calls[i]) \o " not found")
    /\ [](\A j \in Calling :
             (/\ pc = "call_llm"
              /\ Len(messages[j].tool_calls) = 2
              /\ NameOf(messages[j].tool_calls[1]) = "get_real_time"
              /\ NameOf(messages[j].tool_calls[2]) = "unknown_tool") =>
                /\ Len(messages) >= j + 2
                /\ messages[j + 1].role = "tool"
                /\ messages[j + 1].tool_call_id = messages[j].tool_calls[1].id
                /\ messages[j + 2].role = "tool"
                /\ messages[j + 2].tool_call_id = messages[j].tool_calls[2].id
                /\ messages[j + 2].content = "Error: Tool unknown_tool not found"
                /\ (Len(messages) > j + 2 => messages[j + 3].role # "tool"))
    /\ ToolsLeadToBackend

\* C5 witness: the loop is about to call the backend after the calls
\* [get_real_time, unknown_tool] were processed.
C5_Witness ==
    /\ pc = "call_llm"
    /\ Len(messages) >= 3
    /\ Len(messages) - 2 \in Calling
    /\ NameOf(messages[Len(messages) - 2].tool_calls[1]) = "get_real_time"
    /\ messages[Len(messages) - 1].content = "2026-11-06T12:00:00"
    /\ Last(messages).content = "Error: Tool unknown_tool not found"

\* The tool message of the call processed last.
LastToolMessage == Last(messages_additions)

\* C6: processing a tool call never raises to the turn controller: whatever
\* the name and the arguments, and whether the capability returns or raises,
\* the outcome is one string appended as a tool message; an exception of the
\* capability becomes "Error executing {name}: {message}".
C6_ExecutorNeverRaises ==
    /\ [](/\ raised_in # "process_tool_calls"
          /\ (pc = "tools" /\ Len(messages_additions) > 0) =>
                /\ Len(messages_additions) <= Len(tool_calls)
                /\ LastToolMessage.role = "tool"
                /\ LastToolMessage.content \in STRING
                /\ LastToolMessage.content = last_call.text
                /\ LastToolMessage.tool_call_id = tool_calls[Len(messages_additions)].id
                /\ last_call.name = NameOf(tool_calls[Len(messages_additions)])
                /\ last_call.threw =>
                      LastToolMessage.content
                         = "Error executing " \o last_call.name \o ": " \o last_call.thrown)
    /\ [][\A k \in running :
             /\ pc' = "tools"
             /\ running' = {}
             /\ messages_additions' = Append(messages_additions, Last(messages_additions'))]_vars
    /\ [][(pc = "tools" /\ pc' # "tools") =>
             /\ pc' = "call_llm"
             /\ Len(messages_additions) = Len(tool_calls)
             /\ messages' = messages \o messages_additions]_vars

\* C6 witness: a capability raised and its tool message was appended.
C6_Witness ==
    /\ pc = "tools"
    /\ Len(messages_additions) > 0
    /\ last_call.threw
    /\ last_call.thrown = "argument of type 'int' is not iterable"
    /\ LastToolMessage.content
          = "Error executing run_bash: argument of type 'int' is not iterable"

\* C7: when the arguments string of a call is not valid JSON the executor
\* goes on with an empty mapping: a registered capability is still invoked,
\* with no arguments, the tool message of the call is appended, and the loop
\* goes on; the turn does not end.
C7_MalformedArgumentsRecovered ==
    /\ [](/\ pc = "raised" => raised_in \in {"backend", "assembler"}
          /\ (pc = "tools" /\ Len(messages_additions) > 0 /\ last_call.failed) =>
                /\ last_call.kwargs = EmptyDict
                /\ last_call.name \in tool_map(use_todo) => last_call.called
                /\ LastToolMessage.role = "tool"
                /\ LastToolMessage.tool_call_id = tool_calls[Len(messages_additions)].id
                /\ LastToolMessage.content = last_call.text)
    /\ [](\A k \in running :
             /\ pc = "tools"
             /\ ParseArguments(tool_calls[k].function).value.t \in {"dict", "list"})
    /\ ToolsLeadToBackend

\* C7 witness: get_real_time was called with arguments that are no JSON, ran
\* with no arguments and returned the time.
C7_Witness ==
    /\ pc = "tools"
    /\ Len(messages_additions) > 0
    /\ last_call.failed
    /\ last_call.name = "get_real_time"
    /\ last_call.arguments = "{"
    /\ last_call.called
    /\ ~last_call.threw
    /\ LastToolMessage.content = "2026-11-06T12:00:00"

\* The tool-call deltas of the chunks consumed, in arrival order.
RECURSIVE DeltasOf(_)
DeltasOf(log) ==
    IF log = << >> THEN << >>
    ELSE (IF HasChoices(Head(log))
          THEN Get(DeltaOf(Head(log)), "tool_calls", << >>)
          ELSE << >>) \o DeltasOf(Tail(log))

\* The non-empty name fragments received for an index, in arrival order.
NameFragments(log, index) ==
    LET sel == SelectSeq(DeltasOf(log),
                         LAMBDA d : /\ Get(d, "index", 0) = index
                                    /\ "function" \in DOMAIN d
                                    /\ Get(d["function"], "name", "") # "")
    IN  [i \in 1..Len(sel) |-> sel[i]["function"]["name"]]

\* C8: in the stream assembler the name of the tool call at an index is the
\* first non-empty name fragment received for that index, and once set it is
\* not changed by any later fragment of the stream.
C8_FirstNameWins ==
    /\ [](\A i \in 1..Len(tool_calls) :
             LET names == NameFragments(chunk_log, i - 1)
             IN  NameOf(tool_calls[i]) = IF names = << >> THEN "" ELSE names[1])
    /\ [][\A i \in 1..Len(tool_calls) :
             NameOf(tool_calls[i]) # "" =>
                /\ Len(tool_calls') >= i
                /\ NameOf(tool_calls'[i]) = NameOf(tool_calls[i])]_vars

\* C8 witness: a second, different name fragment arrived for index 0 and the
\* name is still the first one.
C8_Witness ==
    /\ pc = "stream"
    /\ Len(NameFragments(chunk_log, 0)) >= 2
    /\ NameFragments(chunk_log, 0)[2] # NameFragments(chunk_log, 0)[1]
    /\ NameOf(tool_calls[1]) = NameFragments(chunk_log, 0)[1]

\* C9: the name fragments "run_", "bash" for one index, followed by the
\* duplicate "run_bash", give a tool call whose name is "run_bash".
C9_RunBashAssembled ==
    NameFragments(chunk_log, 0) = <<"run_", "bash", "run_bash">> =>
        /\ Len(tool_calls) >= 1
        /\ NameOf(tool_calls[1]) = "run_bash"

\* What the assembler makes of the whole response sent as one chunk.
SingleChunk(r) ==
    AssembleChunk([full_content |-> "", full_reasoning |-> "", tool_calls |-> << >>,
                   raised |-> FALSE],
                  ChunkOf(ResponsePieces(r)))

\* C10: for every streamed response the assembled content, reasoning and tool
\* calls are the same for every way of splitting the response into deltas,
\* the single chunk included.
C10_SameForEverySplit ==
    (pc = "stream" /\ stream = << >>) =>
        /\ full_content = SingleChunk(response).full_content
        /\ full_reasoning = SingleChunk(response).full_reasoning
        /\ Len(tool_calls) = Len(SingleChunk(response).tool_calls)
        /\ \A i \in 1..Len(tool_calls) :
              tool_calls[i].function = SingleChunk(response).tool_calls[i].function

\* C11: when a tool-call fragment arrives with an index that is not
\* contiguous with the number of assembled calls, the assembler completes the
\* stream without failing and every index received has its own builder.
C11_GapFilled ==
    /\ raised_in # "assembler"
    /\ \A i \in 1..Len(DeltasOf(chunk_log)) :
          Get(DeltasOf(chunk_log)[i], "index", 0) < Len(tool_calls)

\* C12: in streaming mode no tool is invoked while the stream of the current
\* response is being consumed: the first tool execution of a round starts
\* only after the stream has ended and the assistant message with the fully
\* assembled tool calls is the last message of the conversation.
C12_NoToolWhileStreaming ==
    /\ [](pc = "stream" => running = {})
    /\ [][pc = "stream" => (last_call' = last_call /\ TODO' = TODO
                            /\ messages_additions' = messages_additions)]_vars
    /\ [][(streaming /\ running = {} /\ running' # {} /\ messages_additions = << >>) =>
             /\ pc = "tools"
             /\ stream = << >>
             /\ tool_calls # << >>
             /\ Last(messages) = AssistantMsg(full_content, full_reasoning, tool_calls)]_vars

\* C12 witness: the first tool of a streamed round with two calls is running.
C12_Witness ==
    /\ streaming
    /\ pc = "tools"
    /\ running = {1}
    /\ messages_additions = << >>
    /\ Len(tool_calls) = 2
    /\ stream = << >>

\* The assistant message the non-streaming loop appends for a response.
NonStreamingMsg(r) ==
    AssistantMsg(Get(ResponseMessage(r), "content", ""),
                 Get(ResponseMessage(r), "reasoning_content", ""),
                 Get(ResponseMessage(r), "tool_calls", << >>))

\* C13: for the same model responses and the same tool results the streaming
\* loop and the non-streaming loop produce the same conversation: at the end
\* of every streamed round the assistant message appended is the one the
\* non-streaming loop appends for that response (the tool messages, the todo
\* flag and the counter then come from the same code in both loops).
C13_SameConversation ==
    [][(streaming /\ pc = "stream" /\ pc' \in {"tools", "returned"}) =>
          messages' = Append(messages, NonStreamingMsg(response))]_vars

\* Some tool call of an assistant message added in this turn is named run_todo.
TodoCalled ==
    \E j \in Calling : \E i \in 1..Len(messages[j].tool_calls) :
        NameOf(messages[j].tool_calls[i]) = "run_todo"

\* C14: at the normal end of a turn the rounds-without-todo counter is
\* updated exactly once: reset to 0 if any tool call of any round of this
\* turn was named run_todo, otherwise incremented by exactly 1; no other step
\* of the turn changes it.
C14_CounterUpdatedOnceAtEnd ==
    /\ [][(pc # "returned" /\ pc' = "returned") =>
             rounds_without_todo' = IF TodoCalled' THEN 0 ELSE rounds_without_todo + 1]_vars
    /\ [][~(pc # "returned" /\ pc' = "returned") =>
             rounds_without_todo' = rounds_without_todo]_vars

\* C14 witness: the second turn of a session ended after a run_todo call and
\* reset the counter the first turn had incremented.
C14_Witness ==
    /\ pc = "returned"
    /\ turns = 2
    /\ TodoCalled
    /\ backend_calls = 2
    /\ rounds_without_todo = 0

-----------------------------------------------------------------------------
(* The TodoManager on its own: run_todo called, through the executor, with *)
(* any list of items, valid or not.                                        *)

MaxItems == 2

Pending(content, activeForm) ==
    [content |-> content, status |-> "pending", activeForm |-> activeForm]

TodoItems ==
    { ItemA,
      Pending("B", "Doing B"),
      [content |-> " A ", status |-> "Completed", activeForm |-> "Doing A"],
      Pending(" ", "Doing A"),
      [content |-> "A", status |-> "done", activeForm |-> "Doing A"],
      [content |-> "A"] }

\* The lists given to update: every list of up to MaxItems items, and lists
\* of MaxTodos and MaxTodos + 1 items.
TodoInputs ==
    UNION {[1..n -> TodoItems] : n \in 0..MaxItems}
    \cup {[i \in 1..n |-> Pending("B", "Doing B")] : n \in {MaxTodos, MaxTodos + 1}}
    \cup {[i \in 1..(MaxTodos + 1) |-> ItemA]}

InitTodo ==
    /\ streaming = FALSE
    /\ is_reasoner = FALSE
    /\ use_todo = TRUE
    /\ rounds_without_todo = 0
    /\ TODO = << >>
    /\ first_message = TRUE
    /\ history = <<[role |-> "system", content |-> SYSTEM_PROMPT]>>
    /\ user_input = ""
    /\ messages = << >>
    /\ used_todo_this_turn = FALSE
    /\ pc = "todo"
    /\ stream = << >>
    /\ full_content = ""
    /\ full_reasoning = ""
    /\ tool_calls = << >>
    /\ running = {}
    /\ messages_additions = << >>
    /\ used_todo = FALSE
    /\ result = << >>
    /\ backend_calls = 0
    /\ total_calls = 0
    /\ turns = 0
    /\ response = EmptyDict
    /\ turn_start = << >>
    /\ given_history = << >>
    /\ chunk_log = << >>
    /\ last_call = NoCall
    /\ raised_in = ""
    /\ shared = FALSE
    /\ attempt = 0
    /\ http_log = << >>

\* run_todo(items) called by the executor.
todo_update ==
    /\ pc = "todo"
    /\ \E items \in TodoInputs :
          LET kwargs == [items |-> [t |-> "list", v |-> items]]
          IN  \E o \in execute_tool("run_todo", [t |-> "dict", v |-> kwargs],
                                    tool_map(use_todo), TODO) :
                 /\ TODO' = o.items
                 /\ last_call' = [ name |-> "run_todo", arguments |-> "", failed |-> FALSE,
                                   called |-> o.called, kwargs |-> kwargs,
                                   threw |-> o.threw, thrown |-> o.thrown, text |-> o.text ]
    /\ UNCHANGED << config, request_vars, rounds_without_todo, session_vars, history, messages,
                    used_todo_this_turn, pc, stream_vars, tool_calls, running,
                    messages_additions, used_todo, result, backend_calls, total_calls,
                    response, raised_in >>

NextTodo == todo_update

SpecTodo == InitTodo /\ [][NextTodo]_vars

-----------------------------------------------------------------------------
(* Properties of the TodoManager.                                          *)

\* The list given to the last update.
LastItems == last_call.kwargs["items"].v

\* The last update was one that fails validation: an item with empty
\* content, empty activeForm or a status outside the enum, more than
\* MaxTodos items, or more than one item in_progress.
FailsValidation(items) ==
    \/ \E i \in 1..Len(items) :
          \/ ValidatedItem(items[i]).content = ""
          \/ ValidatedItem(items[i]).activeForm = ""
          \/ ValidatedItem(items[i]).status \notin {"pending", "in_progress", "completed"}
    \/ Len(items) > MaxTodos
    \/ Cardinality({i \in 1..Len(items) : ValidatedItem(items[i]).status = "in_progress"}) > 1

\* C15: after any sequence of TodoManager.update calls, successful or
\* failing, the stored list has at most 20 items, at most one item
\* in_progress, and every item has non-empty content, non-empty activeForm
\* and a status among pending, in_progress, completed.
C15_StoredListValid ==
    /\ Len(TODO) <= MaxTodos
    /\ Cardinality({i \in 1..Len(TODO) : TODO[i].status = "in_progress"}) <= 1
    /\ \A i \in 1..Len(TODO) :
          /\ DOMAIN TODO[i] = {"content", "status", "activeForm"}
          /\ TODO[i].content # ""
          /\ TODO[i].activeForm # ""
          /\ TODO[i].status \in {"pending", "in_progress", "completed"}

\* C15 witness: a list of MaxTodos items is stored and the update after it,
\* with one item more, failed.
C15_Witness ==
    /\ last_call.called
    /\ Len(LastItems) = MaxTodos + 1
    /\ Len(TODO) = MaxTodos

\* The texts run_todo returns for a list of n items that fails validation.
ValidationErrors(n) ==
    {"Error: Max 20 todos allowed", "Error: Only one task can be in_progress at a time"}
    \cup {"Error: Item " \o ToString(i) \o ": " \o m :
             i \in 0..(n - 1), m \in {"content required", "activeForm required"}}
    \cup {"Error: Item " \o ToString(i) \o ": invalid status '" \o s \o "'" :
             i \in 0..(n - 1), s \in {"done"}}

\* C16: an update that fails validation (more than 20 items, more than one
\* item in_progress, or an item with empty content, empty activeForm or a
\* status outside the enum) leaves the stored list as it was, and run_todo
\* returns the failure as text instead of raising.
C16_FailedUpdateChangesNothing ==
    [][FailsValidation(LastItems') =>
          /\ TODO' = TODO
          /\ ~last_call'.threw
          /\ last_call'.text \in ValidationErrors(Len(LastItems'))]_vars

\* C16 witness: a list is stored and the update after it, with two items
\* in_progress, failed and left it in place.
C16_Witness ==
    /\ last_call.called
    /\ LastItems = <<ItemA, ItemA>>
    /\ TODO = <<ItemA, Pending("B", "Doing B")>>
    /\ last_call.text = "Error: Only one task can be in_progress at a time"

\* The line of one item in the rendered list.
ExpectedLine(item) ==
    CASE item.status = "completed"   -> "[x] " \o item.content
      [] item.status = "in_progress" -> "[>] " \o item.content \o " <- " \o item.activeForm
      [] item.status = "pending"     -> "[ ] " \o item.content

\* One line per item, in order, each ended by a line break.
RECURSIVE ExpectedLines(_)
ExpectedLines(items) ==
    IF items = << >> THEN ""
    ELSE ExpectedLine(Head(items)) \o "\n" \o ExpectedLines(Tail(items))

\* The lines, a blank line, and "(c/n completed)".
ExpectedRender(items) ==
    ExpectedLines(items) \o "\n("
    \o ToString(Cardinality({i \in 1..Len(items) : items[i].status = "completed"}))
    \o "/" \o ToString(Len(items)) \o " completed)"

\* The validated input list, in input order.
Validated(items) == [i \in 1..Len(items) |-> ValidatedItem(items[i])]

\* C17 as stated: a successful update replaces the whole stored list by the
\* validated input list, in input order, and render() then gives one line per
\* item, a blank line and "(c/n completed)", for every list stored.
C17_AsStated ==
    [][~FailsValidation(LastItems') =>
          /\ TODO' = Validated(LastItems')
          /\ render(TODO') = ExpectedRender(TODO')
          /\ last_call'.text = "\n" \o render(TODO')]_vars

\* C17, amended: a successful update replaces the whole stored list by the
\* validated input list, in input order, keeping no item of the previous
\* list; render() then gives "No todos." for the empty list, and for any
\* other list one line per item in order ("[x] content", "[>] content <-
\* activeForm", "[ ] content"), a blank line and "(c/n completed)".
C17_ReplacesAndRenders ==
    [][~FailsValidation(LastItems') =>
          /\ TODO' = Validated(LastItems')
          /\ render(TODO') = IF TODO' = << >> THEN "No todos." ELSE ExpectedRender(TODO')
          /\ last_call'.text = "\n" \o render(TODO')
          /\ (LastItems' = <<ItemA>> => render(TODO') = "[>] A <- Doing A\n\n(0/1 completed)")]_vars

\* C17 witness: a list of a completed item and an item in progress was
\* stored, the content stripped and the status in lower case, and rendered.
C17_Witness ==
    /\ last_call.called
    /\ LastItems = <<[content |-> " A ", status |-> "Completed", activeForm |-> "Doing A"], ItemA>>
    /\ TODO = <<[content |-> "A", status |-> "completed", activeForm |-> "Doing A"], ItemA>>
    /\ last_call.text = "\n[x] A\n[>] A <- Doing A\n\n(1/2 completed)"

-----------------------------------------------------------------------------
(* Properties of the loops, continued.                                     *)

\* C18: every assistant message the loop appends, streaming or not, has the
\* role key and a content key whose value is a string, the empty string when
\* the model sent no content, also when the message carries only tool calls.
C18_AssistantHasContent ==
    /\ \A j \in 1..Len(messages) :
          messages[j].role = "assistant" =>
             /\ "content" \in DOMAIN messages[j]
             /\ messages[j].content \in STRING
    /\ \A j \in Added :
          (messages[j].role = "assistant" /\ "content" \notin DOMAIN response
           /\ j = Len(messages) /\ pc \in {"tools", "returned"}) =>
             messages[j].content = ""

\* C18 witness: the last message is an assistant message that carries tool
\* calls and the empty string as content, the model having sent no content.
C18_Witness ==
    /\ pc = "tools"
    /\ "content" \notin DOMAIN response
    /\ Last(messages).role = "assistant"
    /\ Len(Last(messages).tool_calls) = 2
    /\ Last(messages).content = ""

\* C19: a failure raised by the backend call, at any round of a turn, is not
\* caught by the response loop: it leaves response_loop, after it no backend
\* call and no tool execution happens in the turn, nothing is returned, and
\* the rounds-without-todo counter keeps its value.
C19_BackendFailurePropagates ==
    /\ [](raised_in = "backend" => (pc = "raised" /\ result = << >> /\ running = {}))
    /\ [][(raised_in = "" /\ raised_in' = "backend") =>
             /\ pc \in {"call_llm", "stream"}
             /\ rounds_without_todo' = rounds_without_todo
             /\ messages' = messages
             /\ TODO' = TODO]_vars
    /\ [][raised_in = "backend" =>
             /\ backend_calls' = backend_calls
             /\ total_calls' = total_calls
             /\ last_call' = last_call
             /\ messages' = messages
             /\ rounds_without_todo' = rounds_without_todo]_vars

\* C19 witness: the backend call of the second round of a turn raised, after
\* the tools of the first round had run.
C19_Witness ==
    /\ pc = "raised"
    /\ raised_in = "backend"
    /\ backend_calls = 2
    /\ Last(messages).role = "tool"
    /\ rounds_without_todo = 0

\* Assistant message j of the conversation carries a tool call named run_todo.
CallsTodo(j) ==
    \E i \in 1..Len(messages[j].tool_calls) : NameOf(messages[j].tool_calls[i]) = "run_todo"

\* C20: the boolean response_loop returns with the conversation is true if
\* and only if some tool call processed in some round of this turn was named
\* run_todo; once set in a round it stays set for the rest of the turn, and
\* it is false at the beginning of every turn.
C20_TodoFlag ==
    /\ [](pc = "returned" => (result[2] <=> TodoCalled))
    /\ [](pc = "call_llm" => (used_todo_this_turn <=> TodoCalled))
    /\ []((pc = "call_llm" /\ backend_calls = 0) => ~used_todo_this_turn)
    /\ [][pc = "response_loop" => ~used_todo_this_turn']_vars
    /\ [][(used_todo_this_turn /\ pc \notin {"response_loop", "returned"}) =>
             used_todo_this_turn']_vars
    /\ [][(used_todo /\ pc = "tools") => used_todo']_vars

\* C20 witness: a turn returned true after a round that called run_todo and
\* a later round whose calls were all other tools.
C20_Witness ==
    /\ pc = "returned"
    /\ result[2] = TRUE
    /\ \E j, k \in Calling : j < k /\ CallsTodo(j) /\ ~CallsTodo(k)

-----------------------------------------------------------------------------
(* Properties of the stream assembler, continued.                          *)

\* The non-empty arguments fragments received for an index, in arrival order.
ArgumentFragments(log, index) ==
    LET sel == SelectSeq(DeltasOf(log),
                         LAMBDA d : /\ Get(d, "index", 0) = index
                                    /\ "function" \in DOMAIN d
                                    /\ Get(d["function"], "arguments", "") # "")
    IN  [i \in 1..Len(sel) |-> sel[i]["function"]["arguments"]]

\* The indices the tool-call deltas of a chunk carry.
IndicesOf(chunk) ==
    {Get(DeltasOf(<<chunk>>)[i], "index", 0) : i \in 1..Len(DeltasOf(<<chunk>>))}

\* C21: in the stream assembler the arguments string of the tool call at
\* index i is the concatenation, in arrival order, of exactly the non-empty
\* arguments fragments that carried index i, however the fragments of the
\* indices are interleaved; a fragment for index i changes neither the name
\* nor the arguments of a call at another index.
C21_ArgumentsConcatenated ==
    /\ [](\A i \in 1..Len(tool_calls) :
             tool_calls[i].function.arguments = Join(ArgumentFragments(chunk_log, i - 1)))
    /\ [][(pc = "stream" /\ chunk_log' # chunk_log) =>
             \A i \in 1..Len(tool_calls) :
                (i - 1) \notin IndicesOf(Last(chunk_log')) =>
                    tool_calls'[i].function = tool_calls[i].function]_vars

\* C21 witness: the arguments fragments of index 0 arrived around one of
\* index 1 and each call holds its own.
C21_Witness ==
    /\ pc = "stream"
    /\ Len(tool_calls) = 2
    /\ Len(chunk_log) = 3
    /\ IndicesOf(chunk_log[1]) = {0}
    /\ IndicesOf(chunk_log[2]) = {1}
    /\ IndicesOf(chunk_log[3]) = {0}
    /\ tool_calls[1].function.arguments = "{}"
    /\ tool_calls[2].function.arguments = "{"

-----------------------------------------------------------------------------
(* Properties of the loops, continued.                                     *)

\* Sequence s is a prefix of sequence t.
IsPrefix(s, t) == Len(s) <= Len(t) /\ SubSeq(t, 1, Len(s)) = s

\* C22: within a turn the conversation is append-only: at every step of the
\* loop the conversation extends what it was at the step before, so that no
\* message already appended is removed, reordered or modified, and the
\* returned conversation has the turn's starting conversation as a prefix.
C22_AppendOnly ==
    /\ [][pc \notin {"input", "returned", "response_loop"} =>
             IsPrefix(messages, messages')]_vars
    /\ [](pc \notin {"input", "response_loop", "exited"} => IsPrefix(turn_start, messages))
    /\ [](pc = "returned" => (IsPrefix(turn_start, result[1]) /\ result[1] = messages))

\* C22 witness: a turn returned after two rounds, its conversation the
\* starting one followed by four messages.
C22_Witness ==
    /\ pc = "returned"
    /\ backend_calls = 2
    /\ Len(result[1]) = Len(turn_start) + 4
    /\ IsPrefix(turn_start, result[1])

\* The response the backend is answering with carries no tool call.
NoToolCalls == Get(response, "tool_calls", << >>) = << >>

\* A turn is under way and the model has backend calls left to give.
TurnRunning ==
    \/ pc \in {"response_loop", "stream", "tools"}
    \/ (pc = "call_llm" /\ total_calls < MaxCalls)

\* C23: the loop has no cap on tool-call rounds.  A response with zero tool
\* calls ends the turn, so that with backend calls and tools that return a
\* turn goes on until it returns, a failure is raised, or the model has no
\* call left; the tools of a response with tool calls lead, at whatever
\* round, to the next backend call, and the loop does not return while the
\* responses carry tool calls.
C23_NoRoundCap ==
    /\ [][(pc \in {"call_llm", "stream"} /\ pc' \in {"tools", "returned"}) =>
             (pc' = "returned" <=> NoToolCalls')]_vars
    /\ [][(pc = "tools" /\ pc' \notin {"tools", "raised"}) => pc' = "call_llm"]_vars
    /\ [](pc = "returned" => NoToolCalls)
    /\ TurnRunning ~> ~TurnRunning

\* C23 witness: every response of the turn carried tool calls and the loop
\* is at its next backend call, as many rounds as the model allows.
C23_Witness ==
    /\ pc = "call_llm"
    /\ turns = 1
    /\ backend_calls = MaxCalls
    /\ ~NoToolCalls
    /\ Cardinality(Calling) = MaxCalls

-----------------------------------------------------------------------------
(* The backend request on its own: BaseLLM._make_request (src/llm.py), the *)
(* for loop over the HTTP attempts.  An attempt (requests.post, then        *)
(* raise_for_status and, not streaming, response.json) succeeds or raises   *)
(* a requests.exceptions.RequestException.                                  *)

max_retries == 3

RequestExceptions == {"ConnectionError", "HTTPError", "Timeout"}

agent_vars == << shared, use_todo, is_reasoner, rounds_without_todo, TODO, first_message, history,
                 user_input, messages, used_todo_this_turn, full_content, full_reasoning,
                 tool_calls, tool_vars, result, backend_calls, turns, turn_start,
                 given_history, chunk_log >>

InitLLM ==
    /\ streaming \in BOOLEAN
    /\ is_reasoner = FALSE
    /\ use_todo = TRUE
    /\ rounds_without_todo = 0
    /\ TODO = << >>
    /\ first_message = TRUE
    /\ history = <<[role |-> "system", content |-> SYSTEM_PROMPT]>>
    /\ user_input = ""
    /\ messages = << >>
    /\ used_todo_this_turn = FALSE
    /\ pc = "idle"
    /\ stream = << >>
    /\ full_content = ""
    /\ full_reasoning = ""
    /\ tool_calls = << >>
    /\ running = {}
    /\ messages_additions = << >>
    /\ used_todo = FALSE
    /\ result = << >>
    /\ backend_calls = 0
    /\ total_calls = 0
    /\ turns = 0
    /\ response = EmptyDict
    /\ turn_start = << >>
    /\ given_history = << >>
    /\ chunk_log = << >>
    /\ last_call = NoCall
    /\ raised_in = ""
    /\ shared = FALSE
    /\ attempt = 0
    /\ http_log = << >>

\* get_response / get_streaming_response call _make_request: the for loop
\* starts with attempt 0.
make_request ==
    /\ pc \in {"idle", "request_returned", "request_raised"}
    /\ total_calls < MaxCalls
    /\ total_calls' = total_calls + 1
    /\ attempt' = 0
    /\ http_log' = << >>
    /\ response' = EmptyDict
    /\ stream' = << >>
    /\ raised_in' = ""
    /\ pc' = "attempt"
    /\ UNCHANGED << streaming, agent_vars >>

\* The attempt succeeds: _make_request returns the parsed response, or the
\* generator over the chunks of the stream.
attempt_succeeds ==
    /\ pc = "attempt"
    /\ \E r \in Responses :
          /\ response' = r
          /\ stream' = IF streaming THEN ResponsePieces(r) ELSE stream
    /\ http_log' = Append(http_log, "ok")
    /\ pc' = "request_returned"
    /\ UNCHANGED << streaming, agent_vars, total_calls, raised_in, attempt >>

\* Mutant: the failure of the last attempt is swallowed and the request
\* returns without a result.
attempt_fails_Swallowed ==
    /\ pc = "attempt"
    /\ \E e \in RequestExceptions : http_log' = Append(http_log, e)
    /\ pc' = IF attempt < max_retries - 1 THEN "retry_sleep" ELSE "request_returned"
    /\ UNCHANGED << streaming, agent_vars, total_calls, response, stream, attempt,
                    raised_in >>

\* The attempt raises a RequestException: it is caught; before the last
\* attempt the loop sleeps and goes on, at the last attempt it is raised again.
attempt_fails ==
    /\ pc = "attempt"
    /\ \E e \in RequestExceptions :
          /\ http_log' = Append(http_log, e)
          /\ IF attempt < max_retries - 1
             THEN /\ pc' = "retry_sleep"
                  /\ UNCHANGED raised_in
             ELSE /\ pc' = "request_raised"
                  /\ raised_in' = e
    /\ UNCHANGED << streaming, agent_vars, total_calls, response, stream, attempt >>

\* time.sleep(retry_delay) is over: the next iteration of the for loop.
retry ==
    /\ pc = "retry_sleep"
    /\ attempt' = attempt + 1
    /\ pc' = "attempt"
    /\ UNCHANGED << streaming, agent_vars, total_calls, response, stream, raised_in,
                    http_log >>

NextLLM ==
    \/ make_request
    \/ attempt_succeeds
    \/ attempt_fails
    \/ retry

SpecLLM == InitLLM /\ [][NextLLM]_vars

\* The attempts of the request under way that failed.
Failures == {i \in 1..Len(http_log) : http_log[i] # "ok"}

\* C24: one backend request makes at most 3 HTTP attempts: it returns the
\* result of the first attempt that succeeds and makes no attempt after it,
\* retries after each of the first two failures, and raises the failure to
\* the caller after the third failed attempt in a row; it returns no result
\* after a third failure and makes no fourth attempt.
C24_AtMostThreeAttempts ==
    /\ [](Len(http_log) <= 3)
    /\ [](pc = "request_returned" =>
             /\ response # EmptyDict
             /\ http_log[Len(http_log)] = "ok"
             /\ Failures = 1..(Len(http_log) - 1))
    /\ [](pc = "request_raised" =>
             /\ Failures = 1..3
             /\ raised_in = http_log[3]
             /\ response = EmptyDict)
    /\ [](pc = "retry_sleep" => (Failures = 1..Len(http_log) /\ Len(http_log) \in {1, 2}))
    /\ [][(pc = "attempt" /\ Len(http_log) < 2 /\ http_log' # http_log
           /\ http_log'[Len(http_log')] # "ok") => pc' = "retry_sleep"]_vars
    /\ [][pc = "retry_sleep" => (pc' = "attempt" /\ http_log' = http_log)]_vars
    /\ [][(pc \in {"request_returned", "request_raised"}) =>
             (http_log' = << >> /\ pc' = "attempt")]_vars

\* C24 witness: a request returned the result of its third attempt, after
\* two failures.
C24_Witness ==
    /\ pc = "request_returned"
    /\ Len(http_log) = 3
    /\ Failures = {1, 2}
    /\ response # EmptyDict

-----------------------------------------------------------------------------
(* Properties of the loops, continued.                                     *)

-----------------------------------------------------------------------------
(* Properties of the stream assembler, continued.                          *)

\* The non-empty ids received for an index, in arrival order.
IdFragments(log, index) ==
    LET sel == SelectSeq(DeltasOf(log),
                         LAMBDA d : Get(d, "index", 0) = index /\ Get(d, "id", "") # "")
    IN  [i \in 1..Len(sel) |-> sel[i]["id"]]

\* C26: in the stream assembler every assembled tool call ends with the
\* non-empty id the backend sent for its index, whichever fragment of that
\* index carried the id, and the tool message for the call is linked by
\* that id.
C26_IdAssembled ==
    /\ \A i \in 1..Len(tool_calls) :
          IdFragments(chunk_log, i - 1) # << >> =>
              tool_calls[i].id = IdFragments(chunk_log, i - 1)[1]
    /\ \A k \in 1..Len(messages_additions) :
          IdFragments(chunk_log, k - 1) # << >> =>
              messages_additions[k].tool_call_id = IdFragments(chunk_log, k - 1)[1]

-----------------------------------------------------------------------------
(* A long session of Agent.loop.  The late reminder needs more than ten    *)
(* turns, so here a turn is one step: response_loop runs the non-streaming *)
(* loop to its return, either answering at once or calling run_todo in a   *)
(* first round and answering in the second.                                *)

MaxSessionTurns == 14

\* The round of a turn that calls run_todo: the assistant message with the
\* call, the tool message with its result, and the list run_todo stores.
TodoRound(stored) ==
    LET response_message == ResponseMessage([tool_calls |-> <<Call_todo>>])
        tool_call == response_message.tool_calls[1]
        parsed == ParseArguments(tool_call.function)
        o == CHOOSE x \in execute_tool("run_todo", parsed.value, tool_map(TRUE), stored) : TRUE
    IN  [ messages |-> << AssistantMsg(Get(response_message, "content", ""),
                                       Get(response_message, "reasoning_content", ""),
                                       response_message.tool_calls),
                          ToolMessage(tool_call, o.text) >>,
          items |-> o.items ]

InitSession ==
    /\ Init
    /\ ~streaming
    /\ ~is_reasoner
    /\ use_todo

\* Agent.loop in a session of at most MaxSessionTurns turns.
session_loop == LoopStep(MaxSessionTurns)

\* _response_loop_non_streaming from its first backend call to its return.
turn_returns ==
    /\ pc = "call_llm"
    /\ ~streaming
    /\ \E used \in BOOLEAN :
          LET round == TodoRound(TODO)
              final == ResponseMessage([content |-> <<"do", "ne">>])
          IN  /\ messages' = (IF used THEN Extend(messages, round.messages) ELSE messages)
                             \o << AssistantMsg(Get(final, "content", ""),
                                                Get(final, "reasoning_content", ""),
                                                Get(final, "tool_calls", << >>)) >>
              /\ TODO' = IF used THEN round.items ELSE TODO
              /\ used_todo_this_turn' = used
              /\ used_todo' = used
              /\ backend_calls' = IF used THEN 2 ELSE 1
              /\ rounds_without_todo' = update_rounds_counter(rounds_without_todo, used)
              /\ result' = << messages', used >>
    /\ history' = CallerList(history, messages')
    /\ pc' = "returned"
    /\ UNCHANGED << config, request_vars, session_vars, stream_vars, tool_calls, running,
                    messages_additions, last_call, total_calls, response, raised_in >>

NextSession ==
    \/ session_loop
    \/ response_loop
    \/ turn_returns
    \/ backend_raises

SpecSession == InitSession /\ [][NextSession]_vars

\* The assistant message conv[j] calls run_todo.
CallsTodoIn(conv, j) ==
    /\ conv[j].role = "assistant"
    /\ "tool_calls" \in DOMAIN conv[j]
    /\ \E i \in 1..Len(conv[j].tool_calls) : NameOf(conv[j].tool_calls[i]) = "run_todo"

\* conv[i] is a user input: a user message not followed by a user message
\* (a reminder is followed by the input it was added for).
IsInputIn(conv, i) ==
    /\ conv[i].role = "user"
    /\ i < Len(conv) => conv[i + 1].role # "user"

\* The turns of the finished conversation conv that began after its last
\* call of run_todo.
TurnsAfterTodo(conv) ==
    Cardinality({ i \in 1..Len(conv) :
                    /\ IsInputIn(conv, i)
                    /\ \A j \in i..Len(conv) : ~CallsTodoIn(conv, j) })

\* The reminders of a finished conversation: user messages followed by a
\* user message.
RemindersIn(conv) ==
    { i \in 1..Len(conv) - 1 : conv[i].role = "user" /\ conv[i + 1].role = "user" }

\* h2 is h1 with one reminder user message added at its end.
ReminderAdded(h1, h2) ==
    /\ Len(h2) = Len(h1) + 1
    /\ SubSeq(h2, 1, Len(h1)) = h1
    /\ h2[Len(h2)].role = "user"
    /\ h2[Len(h2)].content \in {FirstReminder, LateReminder}

\* C27: in a session of Agent.loop a reminder user message is added to the
\* history before the first input, and before a later input exactly when the
\* rounds-without-todo counter is greater than 10 at that moment, which is
\* exactly when more than 10 turns have completed since the last turn that
\* called run_todo; otherwise the history passes to the turn as it was
\* returned, and no other step adds anything to it.
C27_ReminderWhenDue ==
    [][ /\ (pc = "input" /\ pc' = "response_loop") => ReminderAdded(history, history')
        /\ (pc = "returned" /\ pc' = "response_loop") =>
              /\ (rounds_without_todo > 10) <=> (TurnsAfterTodo(result[1]) > 10)
              /\ IF rounds_without_todo > 10
                 THEN ReminderAdded(result[1], history')
                 ELSE history' = result[1]
        /\ (pc \notin {"input", "returned"}) => history' = history ]_vars

\* A thirteenth-turn run_todo after reminders before turns 12 and 13: the
\* fourteenth input is passed on with no reminder.
C27_Witness ==
    /\ pc = "response_loop"
    /\ turns = 14
    /\ history[Len(history)].role = "assistant"
    /\ Cardinality(RemindersIn(history)) = 3
    /\ TurnsAfterTodo(history) = 0

\* The messages of the conversation made in the turn under way, after the
\* history it received.
MadeInTurn == (Len(given_history) + 1)..Len(messages)

\* The reasoning of the response the backend gave last.
ResponseReasoning(r) == Join(Get(r, "reasoning_content", << >>))

\* C28: for a reasoner model no message of the history received at the start
\* of the turn is in a backend call of the turn with a reasoning_content
\* field (each is the received message without that field); for other models
\* the received history is in the call as it was; and an assistant message
\* made in the turn carries the reasoning of its response and stays as it is
\* in every later backend call of the turn.
C28_ReasoningInCalls ==
    /\ [](pc = "call_llm" =>
            /\ Len(messages) > Len(given_history)
            /\ \A i \in 1..Len(given_history) :
                  IF is_reasoner
                  THEN /\ "reasoning_content" \notin DOMAIN messages[i]
                       /\ SameButReasoning(messages[i], given_history[i])
                  ELSE messages[i] = given_history[i])
    /\ [][ /\ (pc \in {"call_llm", "stream"} /\ Len(messages') = Len(messages) + 1) =>
                LET m == messages'[Len(messages')]
                IN  /\ m.role = "assistant"
                    /\ ResponseReasoning(response') # "" =>
                          /\ "reasoning_content" \in DOMAIN m
                          /\ m.reasoning_content = ResponseReasoning(response')
           /\ (pc \in {"call_llm", "stream", "tools"}) =>
                /\ Len(messages') >= Len(messages)
                /\ \A i \in MadeInTurn : messages'[i] = messages[i] ]_vars

\* A reasoner about to make the second backend call of a turn whose received
\* history held reasoning_content, the assistant message of the first call
\* carrying its reasoning.
C28_Witness ==
    /\ pc = "call_llm"
    /\ is_reasoner
    /\ backend_calls >= 1
    /\ \E i \in 1..Len(given_history) : "reasoning_content" \in DOMAIN given_history[i]
    /\ \E i \in MadeInTurn :
          /\ messages[i].role = "assistant"
          /\ "reasoning_content" \in DOMAIN messages[i]

====
